---- MODULE Spec2Model ----
(***************************************************************************)
(* The chunked transcription engine of YoutubeAIHelper                     *)
(* (src/LocalYoutubeAIHelper-Python/transcriber.py): Transcriber splits an *)
(* audio asset into overlapping chunks, transcribes the chunks on a thread *)
(* pool, merges the shifted subtitles and writes the four transcript       *)
(* files.                                                                  *)
(*                                                                         *)
(* All times are integer milliseconds.  The speech service reports seconds *)
(* as floats and the code turns them into timedeltas; the model takes the  *)
(* values at millisecond granularity, where that conversion is exact.      *)
(* A text is a sequence of tokens, the token " " standing for whitespace.  *)
(***************************************************************************)
EXTENDS Integers, Sequences, FiniteSets, TLC

VARIABLES
    entry,            \* the method called: "transcribe_audio_files" or "split_audio_file"
    asset,            \* the audio file: [size, duration, probe_ok]
    chunk_length_ms,  \* split_audio_file's parameter
    overlap_ms,       \* split_audio_file's parameter
    pc,               \* position of the calling thread
    start,            \* split_audio_file's loop variable
    chunks,           \* split_audio_file's list of chunk descriptors
    files,            \* names of the audio files that exist on disk
    worker,           \* per chunk: position of its transcribe_chunk task
    outcome,          \* per chunk: how its transcribe_chunk call ended
    result,           \* per chunk: the dict transcribe_chunk returned
    removes,          \* per chunk: number of successful os.remove calls on its file
    attempts,         \* per chunk: the errors of the attempts its running remote call has made
    collected,        \* chunks in the order their future.result() was merged into transcripts
    transcripts,      \* transcribe_audio_files' dict: [segments, words]
    outputs,          \* contents of the four transcript files
    srt_pc,           \* where split_srt_file_by_tokens stands
    srt_subtitles,    \* its local list `subtitles`, parsed from srt_content
    max_tokens,       \* its max_tokens argument
    srt_chunks,       \* its local list `chunks`
    current_chunk,    \* its local list current_chunk
    current_tokens,   \* its local counter current_tokens
    cursor,           \* number of subtitles its loop has visited
    bot_pc,           \* where run_bot_loop stands
    full_process_enabled, \* LiveChatBot.full_process_enabled
    live,             \* whether the stream is live
    chat,             \* the messages of the live chat, as published
    next_page_token,  \* run_bot_loop's next_page_token
    handled,          \* positions in chat of the messages passed to handle_message, in order
    cleanups          \* calls of cleanup_and_trigger_full_process

transcriber_vars ==
    <<entry, asset, chunk_length_ms, overlap_ms, pc, start, chunks, files,
      worker, outcome, result, removes, attempts, collected, transcripts, outputs>>

srt_vars == <<srt_pc, srt_subtitles, max_tokens, srt_chunks, current_chunk, current_tokens, cursor>>

bot_vars == <<bot_pc, full_process_enabled, live, chat, next_page_token, handled, cleanups>>

vars == <<transcriber_vars, srt_vars, bot_vars>>

(***************************************************************************)
(* Bounds of the model.                                                    *)
(***************************************************************************)
\* longest asset, in ms, handed to a direct split_audio_file call
MaxDuration == 7
\* largest chunk_length_ms / overlap_ms handed to a direct split_audio_file call
MaxChunkLen == 4
\* iterations of a non-advancing split loop that the model follows
MaxLoopIters == 4

(***************************************************************************)
(* Program constants.                                                      *)
(***************************************************************************)
\* split_audio_file's default chunk_length_ms = 4 * 60 * 60 * 1000
DefaultChunkLengthMs == 14400000
\* split_audio_file's default overlap_ms
DefaultOverlapMs == 10000
\* process_whisper_response's MIN_DURATION, in ms
MinDurationMs == 10
\* stop_after_attempt(6) on AIClient.transcribe_audio
MaxAttempts == 6

\* as if the limit were 24 MiB
WithinNoSplitLimit_24(size) == size <= 24 * 1024 * 1024

\* file_size <= 24.8 * 1024 * 1024, in exact arithmetic
WithinNoSplitLimit(size) == size * 10 <= 248 * 1024 * 1024

Min(a, b) == IF a <= b THEN a ELSE b

(***************************************************************************)
(* Files.  A name is a tuple; the chunk file name is built from the whole  *)
(* seconds of the chunk's start and end, as the code's f-string does.      *)
(***************************************************************************)
OrigName == <<"audio", 0, 0>>

\* as if a chunk file were named by its end alone
ChunkFileName_EndOnly(s, e) == <<"audio_part", 0, e \div 1000>>

ChunkFileName(s, e) == <<"audio_part", s \div 1000, e \div 1000>>

TranscriptFiles == {"transcript.srt", "transcript.txt", "transcript.word.srt", "transcript.llmsrt"}

(***************************************************************************)
(* split_audio_file.                                                       *)
(* A descriptor carries the code's three keys and, as end_time, the `end`  *)
(* the loop computed for it and handed to ffmpeg (for the unsplit asset,   *)
(* the asset's duration): the code keeps it only inside the file name.     *)
(***************************************************************************)
Descriptor(path, s, e, temp) ==
    [file_path |-> path, start_time |-> s, end_time |-> e, is_temp |-> temp]

WholeAssetDescriptor == Descriptor(OrigName, 0, asset.duration, FALSE)

\* as if the end were not clamped to the duration
ChunkEnd_Unclamped(s) == s + chunk_length_ms

\* end = min(start + chunk_length_ms, duration_ms)
ChunkEnd(s) == Min(s + chunk_length_ms, asset.duration)

\* as if the next chunk began where this one ended
NextStart_NoOverlap(s) == s + chunk_length_ms

\* start += chunk_length_ms - overlap_ms
NextStart(s) == s + chunk_length_ms - overlap_ms

\* as if the loop went on while start <= duration_ms
LoopCondition_Inclusive == start <= asset.duration

\* while start < duration_ms
LoopCondition == start < asset.duration

IsTranscribeJob == entry = "transcribe_audio_files"

AfterSplit == IF IsTranscribeJob THEN "submit" ELSE "returned"

\* as if an unknown duration were raised to the caller
SplitEnter_ProbeRaises ==
    /\ pc = "split"
    /\ IF WithinNoSplitLimit(asset.size)
       THEN /\ chunks' = <<WholeAssetDescriptor>>
            /\ pc' = AfterSplit
       ELSE IF ~asset.probe_ok
       THEN /\ chunks' = <<>>
            /\ pc' = "raised"
       ELSE /\ chunks' = <<>>
            /\ pc' = "split_loop"
    /\ start' = 0
    /\ UNCHANGED <<srt_vars, bot_vars, entry, asset, chunk_length_ms, overlap_ms, files, worker, outcome,
                   result, removes, attempts, collected, transcripts, outputs>>

\* lines 309-315: the size test and the duration probe
SplitEnter ==
    /\ pc = "split"
    /\ IF WithinNoSplitLimit(asset.size)
       THEN /\ chunks' = <<WholeAssetDescriptor>>
            /\ pc' = AfterSplit
       ELSE IF ~asset.probe_ok
       THEN /\ chunks' = <<>>
            /\ pc' = AfterSplit
       ELSE /\ chunks' = <<>>
            /\ pc' = "split_loop"
    /\ start' = 0
    /\ UNCHANGED <<srt_vars, bot_vars, entry, asset, chunk_length_ms, overlap_ms, files, worker, outcome,
                   result, removes, attempts, collected, transcripts, outputs>>

\* lines 320-325: one iteration; ffmpeg either writes the chunk file or fails,
\* and split_audio_ffmpeg swallows the failure
SplitIterate ==
    /\ pc = "split_loop"
    /\ LoopCondition
    /\ (chunk_length_ms > overlap_ms \/ Len(chunks) < MaxLoopIters)
    /\ \E ffmpeg_ok \in BOOLEAN :
         LET e == ChunkEnd(start)
             name == ChunkFileName(start, e)
         IN /\ files' = IF ffmpeg_ok THEN files \cup {name} ELSE files
            /\ chunks' = Append(chunks, Descriptor(name, start, e, TRUE))
            /\ start' = NextStart(start)
    /\ UNCHANGED <<srt_vars, bot_vars, entry, asset, chunk_length_ms, overlap_ms, pc, worker, outcome,
                   result, removes, attempts, collected, transcripts, outputs>>

\* line 326: the loop condition fails and the list is returned
SplitReturn ==
    /\ pc = "split_loop"
    /\ ~LoopCondition
    /\ pc' = AfterSplit
    /\ UNCHANGED <<srt_vars, bot_vars, entry, asset, chunk_length_ms, overlap_ms, start, chunks, files,
                   worker, outcome, result, removes, attempts, collected, transcripts, outputs>>

(***************************************************************************)
(* process_whisper_response.                                               *)
(***************************************************************************)
RECURSIVE StripLeft(_)
StripLeft(t) == IF t # <<>> /\ Head(t) = " " THEN StripLeft(Tail(t)) ELSE t

RECURSIVE StripRight(_)
StripRight(t) ==
    IF t # <<>> /\ t[Len(t)] = " " THEN StripRight(SubSeq(t, 1, Len(t) - 1)) ELSE t

\* str.strip()
Strip(t) == StripRight(StripLeft(t))

\* srt.Subtitle(index, start, end, content)
Subtitle(i, s, e, c) == [index |-> i, start |-> s, end |-> e, content |-> c]

\* as if the offset were added a second time
ShiftedStart_Twice(u, start_time_ms) == u.start + start_time_ms + start_time_ms

\* start = timedelta(seconds=unit.start) + start_delta
ShiftedStart(u, start_time_ms) == u.start + start_time_ms

\* as if a unit without length were passed on as it came
ShiftedEnd_NotWidened(u, start_time_ms) == u.end + start_time_ms

\* end = timedelta(seconds=unit.end) + start_delta; if start >= end: end = start + MIN_DURATION
ShiftedEnd(u, start_time_ms) ==
    LET s == ShiftedStart(u, start_time_ms)
        e == u.end + start_time_ms
    IN IF s >= e THEN s + MinDurationMs ELSE e

\* one of the two loops over response.segments / response.words
ProcessUnits(units, start_time_ms) ==
    [i \in 1..Len(units) |->
        Subtitle(i, ShiftedStart(units[i], start_time_ms),
                 ShiftedEnd(units[i], start_time_ms), Strip(units[i].text))]

EmptyResult == [segments |-> <<>>, words |-> <<>>]

\* a response that lacks an attribute raises inside the try, and the except
\* returns both lists empty
ProcessWhisperResponse(response, start_time_ms) ==
    IF response.malformed
    THEN EmptyResult
    ELSE [segments |-> ProcessUnits(response.segments, start_time_ms),
          words |-> ProcessUnits(response.words, start_time_ms)]

(***************************************************************************)
(* What the speech service may answer: timed units local to the audio it   *)
(* was sent.  Two of the answers describe the same speech heard near the   *)
(* end of one four-hour chunk and, 14390 s later in the asset, near the    *)
(* beginning of the next one.                                              *)
(***************************************************************************)
Unit(s, e, t) == [start |-> s, end |-> e, text |-> t]

Response(segs, wrds) == [malformed |-> FALSE, segments |-> segs, words |-> wrds]

HelloEarly ==
    Response(<<Unit(2000, 5000, <<" ", "hello", " ", "world">>)>>,
             <<Unit(2000, 3000, <<" ", "hello">>), Unit(3000, 5000, <<" ", "world">>)>>)

HelloLate ==
    Response(<<Unit(14392000, 14395000, <<" ", "hello", " ", "world">>)>>,
             <<Unit(14392000, 14393000, <<" ", "hello">>),
               Unit(14393000, 14395000, <<" ", "world">>)>>)

ByeLate ==
    Response(<<Unit(14392000, 14395000, <<" ", "bye">>)>>,
             <<Unit(14392000, 14392000, <<"bye">>)>>)

Unordered ==
    Response(<<Unit(5000, 5000, <<"hm">>), Unit(0, 2000, <<"so", " ">>)>>, <<>>)

Silence == Response(<<>>, <<>>)

Malformed == [malformed |-> TRUE, segments |-> <<>>, words |-> <<>>]

WhisperResponses == {HelloEarly, HelloLate, ByeLate, Unordered, Silence, Malformed}

\* the service times a unit inside the audio it was sent
FitsAudio(response, length) ==
    /\ \A i \in 1..Len(response.segments) : response.segments[i].end <= length
    /\ \A i \in 1..Len(response.words) : response.words[i].end <= length

ResponsesFor(chunk) ==
    {r \in WhisperResponses : FitsAudio(r, chunk.end_time - chunk.start_time)}

(***************************************************************************)
(* transcribe_chunk, one task of the thread pool per chunk.                *)
(***************************************************************************)
\* stands for the None that `response` holds until the remote call returns
NoResponse == Response(<<>>, <<>>)

\* the dict transcribe_chunk returns; has_response is FALSE when its
\* 'response' value is None
ChunkResult(segs, wrds, has, response) ==
    [segments |-> segs, words |-> wrds, has_response |-> has, response |-> response]

\* line 257: what the except branch returns
FailureResult(has, response) == ChunkResult(<<>>, <<>>, has, response)

\* lines 250-254: what the try body returns for a response of the service
SuccessResult(response, chunk) ==
    LET r == ProcessWhisperResponse(response, chunk.start_time)
    IN ChunkResult(r.segments, r.words, TRUE, response)

\* as if the file were removed whatever the flag
RemovesFile_Always(chunk) == TRUE

\* as if the cleanup were missing
RemovesFile_Never(chunk) == FALSE

\* lines 251-252: the file is removed when the chunk is temporary
RemovesFile(chunk) == chunk.is_temp

\* the task ends; the retry state of its remote call ends with the call
Finish(i, how, res) ==
    /\ worker' = [worker EXCEPT ![i] = "finished"]
    /\ outcome' = [outcome EXCEPT ![i] = how]
    /\ result' = [result EXCEPT ![i] = res]
    /\ attempts' = [attempts EXCEPT ![i] = <<>>]

\* line 244: open(chunk['file_path'], 'rb'); a missing file raises, the except
\* branch returns with response still None
WorkerOpen(i) ==
    /\ i \in DOMAIN worker
    /\ worker[i] = "queued"
    /\ IF chunks[i].file_path \in files
       THEN /\ worker' = [worker EXCEPT ![i] = "calling"]
            /\ UNCHANGED <<outcome, result, attempts>>
       ELSE Finish(i, "open_error", FailureResult(FALSE, NoResponse))
    /\ UNCHANGED <<srt_vars, bot_vars, entry, asset, chunk_length_ms, overlap_ms, pc, start, chunks, files,
                   removes, collected, transcripts, outputs>>

(***************************************************************************)
(* AIClient.transcribe_audio (ai_client.py), under its retry decorator.    *)
(* An attempt is one call of audio.transcriptions.create; what the SDK     *)
(* does inside that call is not part of the repository.                    *)
(***************************************************************************)
\* what an attempt may raise: rate limiting, a transport reset, a rejected request
ApiErrors == {"RateLimitError", "APIConnectionError", "BadRequestError"}

\* as if every error were retried
RetriesOn_Any(err) == TRUE

\* retry=retry_if_exception_type(RateLimitError)
RetriesOn(err) == err = "RateLimitError"

\* stop=stop_after_attempt(6)
StopsAfter(n) == n >= MaxAttempts

\* how transcribe_chunk's call ends on an error that is not retried
FailureKind(err) ==
    IF err = "RateLimitError" THEN "retries_exhausted"
    ELSE IF err = "APIConnectionError" THEN "connection_error"
    ELSE "api_error"

\* lines 246-257, an attempt of the remote call raises: the decorator waits
\* and tries again, or the error (RetryError once the attempts are used up)
\* reaches transcribe_chunk, whose except branch returns with response still
\* None and leaves the file in place
WorkerCallFails(i) ==
    /\ i \in DOMAIN worker
    /\ worker[i] = "calling"
    /\ \E err \in ApiErrors :
         IF RetriesOn(err) /\ ~StopsAfter(Len(attempts[i]) + 1)
         THEN /\ attempts' = [attempts EXCEPT ![i] = Append(@, err)]
              /\ UNCHANGED <<worker, outcome, result>>
         ELSE Finish(i, FailureKind(err), FailureResult(FALSE, NoResponse))
    /\ UNCHANGED <<srt_vars, bot_vars, entry, asset, chunk_length_ms, overlap_ms, pc, start, chunks, files,
                   removes, collected, transcripts, outputs>>

\* lines 246-254, the remote call returns: the response is processed and the
\* temporary file removed; os.remove raises when the file is gone, and the
\* except branch then returns empty lists beside the response
WorkerCallReturns(i) ==
    /\ i \in DOMAIN worker
    /\ worker[i] = "calling"
    /\ \E response \in ResponsesFor(chunks[i]) :
         IF ~RemovesFile(chunks[i])
         THEN /\ Finish(i, "ok", SuccessResult(response, chunks[i]))
              /\ UNCHANGED <<files, removes>>
         ELSE IF chunks[i].file_path \in files
         THEN /\ Finish(i, "ok", SuccessResult(response, chunks[i]))
              /\ files' = files \ {chunks[i].file_path}
              /\ removes' = [removes EXCEPT ![i] = @ + 1]
         ELSE /\ Finish(i, "remove_error", FailureResult(TRUE, response))
              /\ UNCHANGED <<files, removes>>
    /\ UNCHANGED <<srt_vars, bot_vars, entry, asset, chunk_length_ms, overlap_ms, pc, start, chunks,
                   collected, transcripts, outputs>>

(***************************************************************************)
(* transcribe_audio_files, for one audio file.                             *)
(***************************************************************************)
EmptyTranscripts == [segments |-> <<>>, words |-> <<>>]

\* line 44: one future per chunk
Submit ==
    /\ pc = "submit"
    /\ worker' = [i \in 1..Len(chunks) |-> "queued"]
    /\ outcome' = [i \in 1..Len(chunks) |-> "none"]
    /\ result' = [i \in 1..Len(chunks) |-> FailureResult(FALSE, NoResponse)]
    /\ removes' = [i \in 1..Len(chunks) |-> 0]
    /\ attempts' = [i \in 1..Len(chunks) |-> <<>>]
    /\ pc' = "collect"
    /\ UNCHANGED <<srt_vars, bot_vars, entry, asset, chunk_length_ms, overlap_ms, start, chunks, files,
                   collected, transcripts, outputs>>

\* lines 47-48: transcripts[...].extend(chunk_result[...])
Extended(t, res) ==
    [segments |-> t.segments \o res.segments, words |-> t.words \o res.words]

\* as if extending by a missing response were harmless
ExtendRaises_Never(res) == FALSE

\* line 49: raw_responses.extend(chunk_result['response']) raises TypeError
\* when the response is None
ExtendRaises(res) == ~res.has_response

\* lines 45-49: the next completed future is taken and its result appended;
\* an exception leaves the loop and the with block, whose exit waits for
\* every task of the pool
Collect(i) ==
    /\ pc = "collect"
    /\ i \in DOMAIN worker
    /\ worker[i] = "finished"
    /\ \A k \in 1..Len(collected) : collected[k] # i
    /\ collected' = Append(collected, i)
    /\ transcripts' = Extended(transcripts, result[i])
    /\ pc' = IF ExtendRaises(result[i]) THEN "unwinding" ELSE "collect"
    /\ UNCHANGED <<srt_vars, bot_vars, entry, asset, chunk_length_ms, overlap_ms, start, chunks, files,
                   worker, outcome, result, removes, attempts, outputs>>

AllFinished == \A i \in DOMAIN worker : worker[i] = "finished"

\* as if the pool were left without waiting for its tasks
ExitPool_NotWaiting ==
    /\ pc \in {"collect", "unwinding"}
    /\ pc' = IF pc = "collect" THEN "save" ELSE "raised"
    /\ UNCHANGED <<srt_vars, bot_vars, entry, asset, chunk_length_ms, overlap_ms, start, chunks, files,
                   worker, outcome, result, removes, attempts, collected, transcripts, outputs>>

\* the with block is left once every task has finished: normally on to
\* save_transcripts, with the exception out of transcribe_audio_files
ExitPool ==
    /\ pc \in {"collect", "unwinding"}
    /\ pc = "collect" => Len(collected) = Len(worker)
    /\ AllFinished
    /\ pc' = IF pc = "collect" THEN "save" ELSE "raised"
    /\ UNCHANGED <<srt_vars, bot_vars, entry, asset, chunk_length_ms, overlap_ms, start, chunks, files,
                   worker, outcome, result, removes, attempts, collected, transcripts, outputs>>

(***************************************************************************)
(* save_transcripts: merge, re-index, render, write.                       *)
(***************************************************************************)
\* key=lambda x: x.start
SortKey(x) == x.start

\* as if the sort put an element in front of those with an equal key
InsertByKey_Unstable(sorted, x) ==
    LET k == Cardinality({j \in 1..Len(sorted) : SortKey(sorted[j]) < SortKey(x)})
    IN SubSeq(sorted, 1, k) \o <<x>> \o SubSeq(sorted, k + 1, Len(sorted))

\* list.sort is stable: an element goes behind those whose key is not larger
InsertByKey(sorted, x) ==
    LET k == Cardinality({j \in 1..Len(sorted) : SortKey(sorted[j]) <= SortKey(x)})
    IN SubSeq(sorted, 1, k) \o <<x>> \o SubSeq(sorted, k + 1, Len(sorted))

RECURSIVE SortByStart(_)
SortByStart(s) ==
    IF s = <<>> THEN <<>>
    ELSE InsertByKey(SortByStart(SubSeq(s, 1, Len(s) - 1)), s[Len(s)])

\* for i, x in enumerate(xs, 1): x.index = i
Reindex(s) == [i \in 1..Len(s) |-> [s[i] EXCEPT !.index = i]]

\* as if the merge let go of the unit appended last
Merge_DropLast(units) == Reindex(SortByStart(SubSeq(units, 1, Len(units) - 1)))

\* as if the lists were numbered without being sorted
Merge_Unsorted(units) == Reindex(units)

\* lines 384-387 and 392-395
Merge(units) == Reindex(SortByStart(units))

RECURSIVE JoinWith(_, _)
JoinWith(sep, parts) ==
    IF parts = <<>> THEN <<>>
    ELSE IF Len(parts) = 1 THEN parts[1]
    ELSE parts[1] \o sep \o JoinWith(sep, Tail(parts))

\* as if the texts were joined without a separator
TextContent_Unseparated(segments) ==
    JoinWith(<<>>, [i \in 1..Len(segments) |-> segments[i].content])

\* " ".join(segment.content for segment in segments)
TextContent(segments) == JoinWith(<<" ">>, [i \in 1..Len(segments) |-> segments[i].content])

DigitChar(d) == <<"0", "1", "2", "3", "4", "5", "6", "7", "8", "9">>[d + 1]

RECURSIVE Decimal(_)
Decimal(n) == IF n < 10 THEN <<DigitChar(n)>> ELSE Decimal(n \div 10) \o <<DigitChar(n % 10)>>

TwoDigits(n) == <<DigitChar((n \div 10) % 10), DigitChar(n % 10)>>

\* str(timedelta).split('.')[0]: "%d:%02d:%02d" of the time within the day,
\* behind "N day(s), " when there are whole days
TimestampOf(ms) ==
    LET secs == ms \div 1000
        days == secs \div 86400
        rest == secs % 86400
        clock == Decimal(rest \div 3600) \o <<":">> \o TwoDigits((rest \div 60) % 60)
                 \o <<":">> \o TwoDigits(rest % 60)
    IN IF days = 0 THEN clock
       ELSE Decimal(days) \o <<" ", IF days = 1 THEN "day" ELSE "days", ",", " ">> \o clock

\* f"[{timestamp}] {subtitle.content}"
LlmsrtLine(sub) == <<"[">> \o TimestampOf(sub.start) \o <<"]", " ">> \o sub.content

\* convert_to_llmsrt
ConvertToLlmsrt(subtitles) ==
    JoinWith(<<"\n">>, [i \in 1..Len(subtitles) |-> LlmsrtLine(subtitles[i])])

\* the srt library orders subtitles by (start, end, index)
SrtBefore(a, b) ==
    \/ a.start < b.start
    \/ a.start = b.start /\ a.end < b.end
    \/ a.start = b.start /\ a.end = b.end /\ a.index <= b.index

SrtInsert(sorted, x) ==
    LET k == Cardinality({j \in 1..Len(sorted) : SrtBefore(sorted[j], x)})
    IN SubSeq(sorted, 1, k) \o <<x>> \o SubSeq(sorted, k + 1, Len(sorted))

RECURSIVE SrtSorted(_)
SrtSorted(s) ==
    IF s = <<>> THEN <<>> ELSE SrtInsert(SrtSorted(SubSeq(s, 1, Len(s) - 1)), s[Len(s)])

\* the srt library leaves out a subtitle without content or without duration
SrtSkips(sub) == Strip(sub.content) = <<>> \/ sub.start < 0 \/ sub.start >= sub.end

\* srt.compose(subtitles): the blocks of the file, sorted, the skipped ones
\* left out, numbered from 1; a block keeps its times as numbers
ComposeSrt(subtitles) == Reindex(SelectSeq(SrtSorted(subtitles), LAMBDA sub : ~SrtSkips(sub)))

Absent == [state |-> "absent", data |-> <<>>]

Prior == [state |-> "prior", data |-> <<>>]

\* save_file_content: open(filepath, 'w') and write
Written(content) == [state |-> "written", data |-> content]

\* lines 408-411
SavedFiles(segments, words) ==
    [f \in TranscriptFiles |->
        IF f = "transcript.srt" THEN Written(ComposeSrt(segments))
        ELSE IF f = "transcript.txt" THEN Written(TextContent(segments))
        ELSE IF f = "transcript.word.srt" THEN Written(ComposeSrt(words))
        ELSE Written(ConvertToLlmsrt(segments))]

\* save_transcripts(file_path, transcripts): the lists are sorted and
\* numbered in place, the four files rendered and written
SaveCall(before, after) ==
    /\ pc = before
    /\ LET segments == Merge(transcripts.segments)
           words == Merge(transcripts.words)
       IN /\ transcripts' = [segments |-> segments, words |-> words]
          /\ outputs' = SavedFiles(segments, words)
    /\ pc' = after
    /\ UNCHANGED <<srt_vars, bot_vars, entry, asset, chunk_length_ms, overlap_ms, start, chunks, files,
                   worker, outcome, result, removes, attempts, collected>>

\* line 52: the call that ends transcribe_audio_files
SaveTranscripts == SaveCall("save", "done")

\* save_transcripts called once more with the same path and the same
\* transcripts
SaveTranscriptsAgain == SaveCall("done", "saved_again")

(***************************************************************************)
(* Calls and their inputs.                                                 *)
(***************************************************************************)
\* byte sizes on both sides of the no-split limit, and next to it
FileSizes == {5000000, 26004684, 26004685, 40000000}

\* durations of the assets a job is run on: 3 minutes, 4 hours, 9 hours
JobDurations == {180000, 14400000, 32400000}

Assets(durations) == [size : FileSizes, duration : durations, probe_ok : BOOLEAN]

InitCommon ==
    /\ pc = "split"
    /\ start = 0
    /\ chunks = <<>>
    /\ files = {OrigName}
    /\ worker = <<>>
    /\ outcome = <<>>
    /\ result = <<>>
    /\ removes = <<>>
    /\ attempts = <<>>
    /\ collected = <<>>
    /\ transcripts = EmptyTranscripts

\* transcribe_audio_files(audio_files): split_audio_file runs with its defaults;
\* the transcript files of an earlier run may be there
InitJob ==
    /\ entry = "transcribe_audio_files"
    /\ chunk_length_ms = DefaultChunkLengthMs
    /\ overlap_ms = DefaultOverlapMs
    /\ asset \in Assets(JobDurations)
    /\ outputs \in {[f \in TranscriptFiles |-> Absent], [f \in TranscriptFiles |-> Prior]}

\* split_audio_file(file_path, chunk_length_ms, overlap_ms) called on its own
InitSplit ==
    /\ entry = "split_audio_file"
    /\ \/ /\ chunk_length_ms \in 1..MaxChunkLen
          /\ overlap_ms \in 0..MaxChunkLen
          /\ asset \in Assets(0..MaxDuration)
       \/ /\ chunk_length_ms = DefaultChunkLengthMs
          /\ overlap_ms = DefaultOverlapMs
          /\ asset \in Assets(JobDurations)
    /\ outputs = [f \in TranscriptFiles |-> Absent]

(***************************************************************************)
(* LiveChatBot.run_bot_loop (livechatbot.py).  The live chat is the        *)
(* sequence of its messages in the order they were published; a page       *)
(* token is the number of messages the pages so far have returned, and a   *)
(* fetch without a token starts again at the beginning of the chat.        *)
(***************************************************************************)
\* most messages in the live chat
MaxChat == 3
\* most calls of handle_message the model follows
MaxHandled == 4

\* next_page_token = None
NoPageToken == 0

\* who publishes: a viewer, or the channel the bot posts as
Authors == {"viewer", "bot"}

Message(author, after_join) == [author |-> author, after_join |-> after_join]

\* the bot has not been started
BotIdle ==
    /\ bot_pc = "idle"
    /\ full_process_enabled = FALSE
    /\ live = FALSE
    /\ chat = <<>>
    /\ next_page_token = NoPageToken
    /\ handled = <<>>
    /\ cleanups = 0

\* split_srt_file_by_tokens has not been called
SrtIdle ==
    /\ srt_pc = "idle"
    /\ srt_subtitles = <<>>
    /\ max_tokens = 0
    /\ srt_chunks = <<>>
    /\ current_chunk = <<>>
    /\ current_tokens = 0
    /\ cursor = 0

Init == InitCommon /\ (InitJob \/ InitSplit) /\ SrtIdle /\ BotIdle

Next ==
    \/ SplitEnter
    \/ SplitIterate
    \/ SplitReturn
    \/ Submit
    \/ \E i \in DOMAIN worker : WorkerOpen(i)
    \/ \E i \in DOMAIN worker : WorkerCallFails(i)
    \/ \E i \in DOMAIN worker : WorkerCallReturns(i)
    \/ \E i \in DOMAIN worker : Collect(i)
    \/ ExitPool
    \/ SaveTranscripts
    \/ SaveTranscriptsAgain

Spec == Init /\ [][Next]_vars

(***************************************************************************)
(* split_srt_file_by_tokens(srt_content, max_tokens), as                   *)
(* improve_transcription_file calls it.  A subtitle is its index in the    *)
(* file and the number of tokens the tokenizer counts for its composed     *)
(* SRT block.                                                              *)
(***************************************************************************)
\* most subtitles in a file handed to split_srt_file_by_tokens
MaxSubtitles == 3
\* most tokens counted for one subtitle
MaxSubtitleTokens == 4
\* largest max_tokens handed to split_srt_file_by_tokens
MaxTokensArg == 6

\* transcribe_audio_files is not running
TranscriberIdle ==
    /\ entry = "none"
    /\ asset = [size |-> 0, duration |-> 0, probe_ok |-> FALSE]
    /\ chunk_length_ms = DefaultChunkLengthMs
    /\ overlap_ms = DefaultOverlapMs
    /\ pc = "idle"
    /\ start = 0
    /\ chunks = <<>>
    /\ files = {}
    /\ worker = <<>>
    /\ outcome = <<>>
    /\ result = <<>>
    /\ removes = <<>>
    /\ attempts = <<>>
    /\ collected = <<>>
    /\ transcripts = EmptyTranscripts
    /\ outputs = [f \in TranscriptFiles |-> Absent]

\* list(srt.parse(srt_content)) for a file of n subtitles
ParsedFiles ==
    UNION {{[i \in 1..n |-> [index |-> i, tokens |-> t[i]]] :
                t \in [1..n -> 1..MaxSubtitleTokens]} : n \in 0..MaxSubtitles}

\* len(tokenizer.encode(srt.compose([subtitle])))
SubtitleTokens(subtitle) == subtitle.tokens

\* math.floor(max_tokens * token_safety_percentage), token_safety_percentage = 0.75
SafeTokenLimit == (max_tokens * 3) \div 4

\* line 115: if current_tokens + subtitle_tokens > safe_token_limit
ClosesChunk(subtitle_tokens) == current_tokens + subtitle_tokens > SafeTokenLimit

\* lines 101-107: the content is parsed and the locals are set
SrtEnter ==
    /\ srt_pc = "called"
    /\ srt_pc' = "loop"
    /\ srt_chunks' = <<>>
    /\ current_chunk' = <<>>
    /\ current_tokens' = 0
    /\ cursor' = 0
    /\ UNCHANGED <<transcriber_vars, bot_vars, srt_subtitles, max_tokens>>

\* lines 109-121: one iteration of the loop over the subtitles
SrtVisit ==
    /\ srt_pc = "loop"
    /\ cursor < Len(srt_subtitles)
    /\ LET subtitle == srt_subtitles[cursor + 1]
           subtitle_tokens == SubtitleTokens(subtitle)
       IN IF ClosesChunk(subtitle_tokens)
          THEN /\ srt_chunks' = Append(srt_chunks, current_chunk)
               /\ current_chunk' = <<subtitle>>
               /\ current_tokens' = subtitle_tokens
          ELSE /\ srt_chunks' = srt_chunks
               /\ current_chunk' = Append(current_chunk, subtitle)
               /\ current_tokens' = current_tokens + subtitle_tokens
    /\ cursor' = cursor + 1
    /\ UNCHANGED <<transcriber_vars, bot_vars, srt_pc, srt_subtitles, max_tokens>>

\* lines 123-127: the subtitles that remain are appended and the list returned
SrtReturn ==
    /\ srt_pc = "loop"
    /\ cursor = Len(srt_subtitles)
    /\ srt_chunks' = IF current_chunk # <<>> THEN Append(srt_chunks, current_chunk)
                     ELSE srt_chunks
    /\ srt_pc' = "returned"
    /\ UNCHANGED <<transcriber_vars, bot_vars, srt_subtitles, max_tokens, current_chunk,
                   current_tokens, cursor>>

InitSrt ==
    /\ TranscriberIdle
    /\ BotIdle
    /\ srt_pc = "called"
    /\ srt_subtitles \in ParsedFiles
    /\ max_tokens \in 0..MaxTokensArg
    /\ srt_chunks = <<>>
    /\ current_chunk = <<>>
    /\ current_tokens = 0
    /\ cursor = 0

NextSrt == SrtEnter \/ SrtVisit \/ SrtReturn

SpecSrt == InitSrt /\ [][NextSrt]_vars

(***************************************************************************)
(* run_bot_loop, its calls and its steps.                                  *)
(***************************************************************************)
\* YouTubeUpdater.find_active_live_stream: the chat id of the live stream,
\* None when there is none and None when the request raised
FindResults == IF live THEN BOOLEAN ELSE {FALSE}

\* YouTubeUpdater.post_live_chat_message n times: an error is logged and
\* swallowed, a message posted enters the chat
Posted(n) == [i \in 1..n |-> Message("bot", bot_pc # "start")]

Room == MaxChat - Len(chat)

\* YouTubeUpdater.fetch_live_chat_messages(live_chat_id, page_token): the
\* positions of the messages of the page, and the next page token; an error
\* is swallowed and gives ([], None)
FetchedPage(fetch_ok) ==
    IF fetch_ok
    THEN [items |-> [i \in 1..(Len(chat) - next_page_token) |-> next_page_token + i],
          token |-> Len(chat)]
    ELSE [items |-> <<>>, token |-> NoPageToken]

\* lines 368-371: published after the bot joined, and not by the bot
PassesFilter(k) == chat[k].after_join /\ chat[k].author # "bot"

\* lines 355-385: the messages of the page that reach handle_message
ToHandle(items) == SelectSeq(items, PassesFilter)

\* lines 334-341
BotConnect ==
    /\ bot_pc = "start"
    /\ \E found \in FindResults, posted \in 0..1 :
         IF found
         THEN /\ chat' = chat \o Posted(posted)
              /\ bot_pc' = "polling"
         ELSE /\ posted = 0
              /\ chat' = chat
              /\ bot_pc' = "no_stream"
    /\ next_page_token' = NoPageToken
    /\ UNCHANGED <<transcriber_vars, srt_vars, full_process_enabled, live, handled, cleanups>>

\* somebody writes into the live chat
Publish ==
    /\ bot_pc = "polling"
    /\ live
    /\ Room > 0
    /\ \E author \in Authors : chat' = Append(chat, Message(author, TRUE))
    /\ UNCHANGED <<transcriber_vars, srt_vars, bot_pc, full_process_enabled, live,
                   next_page_token, handled, cleanups>>

\* the stream goes offline
StreamEnds ==
    /\ bot_pc \in {"start", "polling"}
    /\ live
    /\ live' = FALSE
    /\ UNCHANGED <<transcriber_vars, srt_vars, bot_pc, full_process_enabled, chat,
                   next_page_token, handled, cleanups>>

\* lines 304-329: the final message is posted and the full process run
CleanupAndTriggerFullProcess(posted) ==
    /\ chat' = chat \o Posted(posted)
    /\ cleanups' = cleanups + 1

\* lines 344-403 and 414-420, one iteration of the loop: the page is
\* fetched, the stream looked up, and either StreamOfflineError is raised in
\* the body and handled, or the messages of the page are gone through
Poll ==
    /\ bot_pc = "polling"
    /\ \E fetch_ok \in BOOLEAN, found \in FindResults, posted \in 0..Room :
         LET page == FetchedPage(fetch_ok)
         IN /\ next_page_token' = page.token
            /\ IF ~found
               THEN /\ IF full_process_enabled
                       THEN /\ posted <= 1
                            /\ CleanupAndTriggerFullProcess(posted)
                       ELSE /\ posted = 0
                            /\ UNCHANGED <<chat, cleanups>>
                    /\ handled' = handled
                    /\ bot_pc' = "exited"
               ELSE /\ posted <= Len(ToHandle(page.items))
                    /\ Len(handled) + Len(ToHandle(page.items)) <= MaxHandled
                    /\ handled' = handled \o ToHandle(page.items)
                    /\ chat' = chat \o Posted(posted)
                    /\ bot_pc' = "polling"
                    /\ UNCHANGED cleanups
    /\ UNCHANGED <<transcriber_vars, srt_vars, full_process_enabled, live>>

\* lines 405-413: an HttpError leaves the try body; the handler raises
\* StreamOfflineError when the error says the live chat has ended and
\* re-raises the error otherwise, and what a handler raises is not handled
\* by the other except clauses of the same try statement
BotHttpError ==
    /\ bot_pc = "polling"
    /\ \E chat_ended \in BOOLEAN :
         bot_pc' = IF chat_ended THEN "raised_offline" ELSE "raised_http"
    /\ UNCHANGED <<transcriber_vars, srt_vars, full_process_enabled, live, chat,
                   next_page_token, handled, cleanups>>

\* __main__: LiveChatBot(full_process_enabled=args.full_process).run_bot_loop(...)
InitBot ==
    /\ TranscriberIdle
    /\ SrtIdle
    /\ bot_pc = "start"
    /\ full_process_enabled \in BOOLEAN
    /\ live \in BOOLEAN
    /\ chat \in {<<>>} \cup {<<Message(a, FALSE)>> : a \in Authors}
    /\ next_page_token = NoPageToken
    /\ handled = <<>>
    /\ cleanups = 0

NextBot == BotConnect \/ Publish \/ StreamEnds \/ Poll \/ BotHttpError

SpecBot == InitBot /\ [][NextBot]_vars

(***************************************************************************)
(* Vocabulary of the properties.                                           *)
(***************************************************************************)
\* split_audio_file has returned
SplitFinished == pc \notin {"split", "split_loop"}

\* the asset is above the no-split limit of 24.8 MiB and its duration is known
SplitRequired == asset.size * 10 > 248 * 1048576 /\ asset.probe_ok

\* the with block of transcribe_audio_files has been left
PoolExited == pc \in {"save", "done", "saved_again", "raised"}

\* the task of chunk i ended without a response: the file could not be
\* opened, or the remote call raised or used up its retries
SegmentFailed(i) ==
    outcome[i] \in {"open_error", "api_error", "connection_error", "retries_exhausted"}

Untouched(f) == outputs[f].state # "written"

CeilDiv(a, b) == IF a % b = 0 THEN a \div b ELSE (a \div b) + 1

(***************************************************************************)
(* C1.  When the transcription of a segment fails (its file cannot be      *)
(* opened, or the remote call raises or uses up its retries), no           *)
(* transcript file is written or modified: the files of an earlier run     *)
(* keep their contents and nothing built from the other segments is        *)
(* published.                                                              *)
(***************************************************************************)
Thm_C1 ==
    (\E i \in DOMAIN outcome : SegmentFailed(i)) => \A f \in TranscriptFiles : Untouched(f)

\* segment 2 of 3 failed, the other two were transcribed, the job has ended
\* and the files of the earlier run are as they were
Wit_C1 ==
    /\ pc = "raised"
    /\ Len(chunks) = 3
    /\ outcome[2] = "api_error"
    /\ outcome[1] = "ok" /\ result[1].segments # <<>>
    /\ outcome[3] = "ok" /\ result[3].segments # <<>>
    /\ \A f \in TranscriptFiles : outputs[f] = Prior

(***************************************************************************)
(* C2.  After the merge step of save_transcripts, at segment and at word   *)
(* granularity, the merged sequence is sorted ascending by start and its   *)
(* indices are exactly 1..N, whatever the segments returned and whatever   *)
(* the order in which they completed.                                      *)
(***************************************************************************)
SortedByStart(s) == \A i \in 1..(Len(s) - 1) : s[i].start <= s[i + 1].start

IndexedFromOne(s) == \A i \in 1..Len(s) : s[i].index = i

Thm_C2 ==
    pc = "done" =>
        /\ SortedByStart(transcripts.segments) /\ IndexedFromOne(transcripts.segments)
        /\ SortedByStart(transcripts.words) /\ IndexedFromOne(transcripts.words)

\* three segments were collected last-first, each brought units, and the
\* merged lists are in place
Wit_C2 ==
    /\ pc = "done"
    /\ collected = <<3, 2, 1>>
    /\ \A i \in 1..3 : result[i].segments # <<>>
    /\ Len(transcripts.segments) >= 3
    /\ Len(transcripts.words) >= 3

(***************************************************************************)
(* C3.  When two time-adjacent segments both return a unit with the same   *)
(* text and the same absolute times, lying inside the window the two       *)
(* segments share, the merged sequence holds that unit exactly once.       *)
(* (Which of two equal units was kept cannot be told from the sequence.)   *)
(***************************************************************************)
SameUnit(a, b) == a.start = b.start /\ a.end = b.end /\ a.content = b.content

Occurrences(s, u) == Cardinality({k \in 1..Len(s) : SameUnit(s[k], u)})

\* chunk i + 1 reaches beyond chunk i, and the unit lies in the window the
\* two share
InOverlapWindow(u, i) ==
    /\ chunks[i].end_time < chunks[i + 1].end_time
    /\ chunks[i + 1].start_time <= u.start /\ u.end <= chunks[i].end_time

DuplicateFree(merged, earlier, later, i) ==
    \A a \in 1..Len(earlier) : \A b \in 1..Len(later) :
        (SameUnit(earlier[a], later[b]) /\ InOverlapWindow(earlier[a], i))
            => Occurrences(merged, earlier[a]) = 1

CE_C3 ==
    pc = "done" =>
        \A i \in 1..(Len(chunks) - 1) :
            /\ DuplicateFree(transcripts.segments, result[i].segments, result[i + 1].segments, i)
            /\ DuplicateFree(transcripts.words, result[i].words, result[i + 1].words, i)

(***************************************************************************)
(* C4.  For an asset that requires splitting, with chunk length C and      *)
(* overlap O, C > O, split_audio_file returns exactly                      *)
(* ceil((duration - O) / (C - O)) descriptors.  Stated for assets longer   *)
(* than the overlap, where the quotient is positive.                       *)
(***************************************************************************)
CE_C4 ==
    (SplitFinished /\ SplitRequired /\ chunk_length_ms > overlap_ms
     /\ asset.duration > overlap_ms)
        => Len(chunks) = CeilDiv(asset.duration - overlap_ms, chunk_length_ms - overlap_ms)

(***************************************************************************)
(* C5.  For an asset that requires splitting, with C > O, the descriptors  *)
(* cover [0, duration) without gaps: the first starts at 0, each later one *)
(* starts no later than the one before it ends, and the last ends at the   *)
(* duration.                                                               *)
(***************************************************************************)
Covers(cs, duration) ==
    /\ duration > 0 => cs # <<>>
    /\ cs # <<>> =>
        /\ cs[1].start_time = 0
        /\ \A i \in 1..(Len(cs) - 1) : cs[i + 1].start_time <= cs[i].end_time
        /\ cs[Len(cs)].end_time = duration

Thm_C5 ==
    (SplitFinished /\ SplitRequired /\ chunk_length_ms > overlap_ms)
        => Covers(chunks, asset.duration)

\* a nine-hour asset was cut in three, the last chunk shorter than the others
Wit_C5 ==
    /\ SplitFinished /\ SplitRequired
    /\ asset.duration = 32400000
    /\ Len(chunks) = 3
    /\ chunks[3].end_time - chunks[3].start_time < chunk_length_ms
    /\ chunks[2].start_time < chunks[1].end_time

(***************************************************************************)
(* C6.  For an asset that requires splitting, with C > O, consecutive      *)
(* descriptors overlap by exactly O, except possibly where the later of    *)
(* the two is the final descriptor.                                        *)
(***************************************************************************)
CE_C6 ==
    (SplitFinished /\ SplitRequired /\ chunk_length_ms > overlap_ms)
        => \A i \in 1..(Len(chunks) - 2) :
              chunks[i].end_time - chunks[i + 1].start_time = overlap_ms

(***************************************************************************)
(* C7.  For an asset of at most 24.8 MiB, whatever its duration,           *)
(* split_audio_file returns exactly one descriptor: not temporary,         *)
(* starting at 0, naming the original file and so spanning the whole       *)
(* asset; a 5 MB asset of 3 minutes gives {0, 180000, false}.              *)
(***************************************************************************)
Thm_C7 ==
    (SplitFinished /\ asset.size * 10 <= 248 * 1048576)
        => /\ Len(chunks) = 1
           /\ chunks[1].file_path = OrigName
           /\ chunks[1].start_time = 0
           /\ chunks[1].end_time = asset.duration
           /\ ~chunks[1].is_temp
           /\ OrigName \in files

\* the 5 MB asset of 3 minutes
Wit_C7 ==
    /\ SplitFinished
    /\ asset.size = 5000000 /\ asset.duration = 180000
    /\ chunks = <<Descriptor(OrigName, 0, 180000, FALSE)>>

(***************************************************************************)
(* C8.  With chunk length <= overlap on an asset that requires splitting,  *)
(* split_audio_file ends: every iteration of its loop brings start closer  *)
(* to the duration, so it emits a bounded number of descriptors.           *)
(***************************************************************************)
CE_C8 ==
    [][(pc = "split_loop" /\ chunk_length_ms <= overlap_ms /\ chunks' # chunks)
          => (start' > start)]_vars

(***************************************************************************)
(* C9.  Every temporary segment file is deleted exactly once after the     *)
(* transcription attempt, whether it succeeded or failed: once all tasks   *)
(* have finished no temporary segment file remains.                        *)
(***************************************************************************)
CE_C9 ==
    PoolExited =>
        \A i \in DOMAIN chunks :
            chunks[i].is_temp => (chunks[i].file_path \notin files /\ removes[i] <= 1)

(***************************************************************************)
(* C10.  When a segment of several fails, the tasks of the other segments  *)
(* still run to completion and the temporary files of those that were      *)
(* transcribed are deleted: a task that has not finished can always take   *)
(* its next step, the pool is left only when every task has finished, and  *)
(* a task that ended with a transcription has deleted its temporary file,  *)
(* once.                                                                   *)
(***************************************************************************)
CanProceed(i) ==
    /\ worker[i] = "queued" => ENABLED WorkerOpen(i)
    /\ worker[i] = "calling" => ENABLED WorkerCallReturns(i)

CleanedUp(i) ==
    (worker[i] = "finished" /\ outcome[i] = "ok" /\ chunks[i].is_temp)
        => (chunks[i].file_path \notin files /\ removes[i] = 1)

Thm_C10 ==
    (Len(chunks) > 1 /\ \E i \in DOMAIN outcome : SegmentFailed(i))
        => \A i \in DOMAIN worker :
              /\ CanProceed(i)
              /\ CleanedUp(i)
              /\ PoolExited => worker[i] = "finished"

\* segment 2 of 3 failed, the job has ended, the files of segments 1 and 3
\* are gone
Wit_C10 ==
    /\ pc = "raised"
    /\ Len(chunks) = 3
    /\ outcome = <<"ok", "api_error", "ok">>
    /\ chunks[1].file_path \notin files
    /\ chunks[3].file_path \notin files
    /\ removes[1] = 1 /\ removes[3] = 1

(***************************************************************************)
(* C11.  Every unit, word or segment, of a response that was processed is  *)
(* handed on with start = local start + start_ms and end = local end +     *)
(* start_ms of its chunk: shifted once, duration unchanged.                *)
(***************************************************************************)
\* chunk i's response went through process_whisper_response and its lists
\* were returned
Processed(i) == outcome[i] = "ok" /\ ~result[i].response.malformed

ShiftedOnce(out, local, start_ms) ==
    /\ Len(out) = Len(local)
    /\ \A k \in 1..Len(local) : out[k].start = local[k].start + start_ms

DurationKept(out, local, start_ms, k) == out[k].end = local[k].end + start_ms

CE_C11 ==
    \A i \in DOMAIN outcome :
        Processed(i) =>
            /\ ShiftedOnce(result[i].segments, result[i].response.segments, chunks[i].start_time)
            /\ ShiftedOnce(result[i].words, result[i].response.words, chunks[i].start_time)
            /\ \A k \in 1..Len(result[i].response.segments) :
                  DurationKept(result[i].segments, result[i].response.segments,
                               chunks[i].start_time, k)
            /\ \A k \in 1..Len(result[i].response.words) :
                  DurationKept(result[i].words, result[i].response.words,
                               chunks[i].start_time, k)

\* amended: the start of every unit is shifted once; the end is shifted once
\* when the unit has a length, and a unit the service timed with
\* start >= end leaves with end = shifted start + 10 ms
EndAsProcessed(out, local, start_ms, k) ==
    IF local[k].start < local[k].end
    THEN DurationKept(out, local, start_ms, k)
    ELSE out[k].end = local[k].start + start_ms + MinDurationMs

Thm_C11 ==
    \A i \in DOMAIN outcome :
        Processed(i) =>
            /\ ShiftedOnce(result[i].segments, result[i].response.segments, chunks[i].start_time)
            /\ ShiftedOnce(result[i].words, result[i].response.words, chunks[i].start_time)
            /\ \A k \in 1..Len(result[i].response.segments) :
                  EndAsProcessed(result[i].segments, result[i].response.segments,
                                 chunks[i].start_time, k)
            /\ \A k \in 1..Len(result[i].response.words) :
                  EndAsProcessed(result[i].words, result[i].response.words,
                                 chunks[i].start_time, k)

\* the second chunk of three, 14390 s into the asset, returned a unit with a
\* length and one without
Wit_C11 ==
    /\ Len(chunks) = 3 /\ Len(outcome) = 3
    /\ Processed(2)
    /\ chunks[2].start_time = 14390000
    /\ result[2].response = Unordered
    /\ result[2].segments[2].start = 14390000 /\ result[2].segments[2].end = 14392000
    /\ result[2].segments[1].start = 14395000 /\ result[2].segments[1].end = 14395010

(***************************************************************************)
(* C12.  For given per-segment results the merged, re-indexed sequences    *)
(* do not depend on the order in which the tasks completed: units with     *)
(* equal start stand in segment submission order.                          *)
(***************************************************************************)
\* the results of chunks 1..n, one after the other in submission order
RECURSIVE SubmissionOrder(_)
SubmissionOrder(n) ==
    IF n = 0 THEN EmptyTranscripts ELSE Extended(SubmissionOrder(n - 1), result[n])

CE_C12 ==
    pc = "done" =>
        /\ transcripts.segments = Merge(SubmissionOrder(Len(result)).segments)
        /\ transcripts.words = Merge(SubmissionOrder(Len(result)).words)

(***************************************************************************)
(* C13.  Rendering is idempotent: a second save_transcripts on the merged  *)
(* sequences writes the same four files with the same content, leaves the  *)
(* sequences as they were and adds no other file.                          *)
(***************************************************************************)
SecondSave == pc = "done" /\ pc' = "saved_again"

Thm_C13 ==
    [][SecondSave =>
          /\ \A f \in TranscriptFiles :
                outputs[f].state = "written" /\ outputs'[f] = outputs[f]
          /\ DOMAIN outputs' = TranscriptFiles
          /\ transcripts' = transcripts]_vars

\* saved twice, with two segment units of equal start and a unit without
\* length among the words
Wit_C13 ==
    /\ pc = "saved_again"
    /\ Len(transcripts.segments) = 2
    /\ transcripts.segments[1].start = transcripts.segments[2].start
    /\ transcripts.segments[1].content # transcripts.segments[2].content
    /\ Len(transcripts.words) = 3
    /\ \A f \in TranscriptFiles : outputs[f].state = "written" /\ outputs[f].data # <<>>

(***************************************************************************)
(* C14.  transcript.llmsrt has one line per segment unit, in merged order, *)
(* joined by newlines, of the form [HH:MM:SS] text, with the unit's start  *)
(* truncated to whole seconds and hours, minutes and seconds of two        *)
(* digits each.                                                            *)
(***************************************************************************)
\* HH:MM:SS of a time in ms, two digits each
ClockHHMMSS(ms) ==
    LET secs == ms \div 1000
    IN TwoDigits(secs \div 3600) \o <<":">> \o TwoDigits((secs \div 60) % 60)
       \o <<":">> \o TwoDigits(secs % 60)

LineHHMMSS(sub) == <<"[">> \o ClockHHMMSS(sub.start) \o <<"]", " ">> \o sub.content

CE_C14 ==
    pc = "done" =>
        outputs["transcript.llmsrt"].data =
            JoinWith(<<"\n">>, [i \in 1..Len(transcripts.segments) |->
                                    LineHHMMSS(transcripts.segments[i])])

(***************************************************************************)
(* C15.  transcript.txt is the texts of the segment units, in merged       *)
(* (start-ascending) order, joined by a single space; the word units do    *)
(* not contribute to it.                                                   *)
(***************************************************************************)
\* the texts of units 1..n with one space between neighbours
RECURSIVE SpaceJoined(_, _)
SpaceJoined(units, n) ==
    IF n = 0 THEN <<>>
    ELSE IF n = 1 THEN units[1].content
    ELSE SpaceJoined(units, n - 1) \o <<" ">> \o units[n].content

Thm_C15 ==
    pc = "done" =>
        /\ SortedByStart(transcripts.segments)
        /\ outputs["transcript.txt"].data =
              SpaceJoined(transcripts.segments, Len(transcripts.segments))

\* two chunks gave three segment units, out of order, and two word units
Wit_C15 ==
    /\ pc = "done"
    /\ Len(transcripts.segments) = 3
    /\ Len(transcripts.words) = 2
    /\ transcripts.segments[1].start < transcripts.segments[2].start
    /\ outputs["transcript.txt"].data = <<"so", " ", "hm", " ", "hello", " ", "world">>

(***************************************************************************)
(* C16.  A 4-hour (14400000 ms), 40 MB asset split with C = 4 h and        *)
(* O = 10 s yields exactly one descriptor, {0, 14400000}, and it is not    *)
(* temporary; in general a descriptor that spans the whole asset is not    *)
(* marked temporary.                                                       *)
(***************************************************************************)
FourHourAsset ==
    /\ asset.size = 40000000 /\ asset.probe_ok /\ asset.duration = 14400000
    /\ chunk_length_ms = 14400000 /\ overlap_ms = 10000

SpansAsset(chunk) == chunk.start_time = 0 /\ chunk.end_time = asset.duration

CE_C16 ==
    SplitFinished =>
        /\ FourHourAsset =>
              /\ Len(chunks) = 1
              /\ SpansAsset(chunks[1])
              /\ ~chunks[1].is_temp
        /\ \A i \in DOMAIN chunks : SpansAsset(chunks[i]) => ~chunks[i].is_temp

(***************************************************************************)
(* C17.  A 9-hour (32400000 ms) asset above the no-split limit, split with *)
(* C = 4 h and O = 10 s, yields exactly three descriptors,                 *)
(* {0, 14400000}, {14390000, 28790000} and {28780000, 32400000}, all       *)
(* temporary, the last clamped to the duration.                            *)
(***************************************************************************)
NineHourAsset ==
    /\ asset.size * 10 > 248 * 1048576 /\ asset.probe_ok /\ asset.duration = 32400000
    /\ chunk_length_ms = 14400000 /\ overlap_ms = 10000

Span(chunk) == <<chunk.start_time, chunk.end_time>>

Thm_C17 ==
    (SplitFinished /\ NineHourAsset) =>
        /\ Len(chunks) = 3
        /\ Span(chunks[1]) = <<0, 14400000>>
        /\ Span(chunks[2]) = <<14390000, 28790000>>
        /\ Span(chunks[3]) = <<28780000, 32400000>>
        /\ \A i \in 1..3 : chunks[i].is_temp

\* the split of the 9-hour, 40 MB asset has returned and its three files exist
Wit_C17 ==
    /\ pc = "submit"
    /\ NineHourAsset /\ asset.size = 40000000
    /\ Len(chunks) = 3
    /\ chunks[3].end_time = asset.duration
    /\ \A i \in 1..3 : chunks[i].file_path \in files

(***************************************************************************)
(* C18.  When the encoder run by split_audio_ffmpeg fails for a segment,   *)
(* the error is propagated and the job fails: split_audio_file does not    *)
(* return the segment, and no transcription task is given a segment whose  *)
(* file was not made.                                                      *)
(***************************************************************************)
Materialized(chunk) == chunk.file_path \in files

CE_C18 ==
    /\ pc = "submit" => \A i \in DOMAIN chunks : Materialized(chunks[i])
    /\ pc = "collect" =>
          \A i \in DOMAIN worker : worker[i] = "queued" => Materialized(chunks[i])

(***************************************************************************)
(* C19.  One remote transcription call is attempted at most 6 times in     *)
(* all; a further attempt is made only after a rate-limit error, and an    *)
(* error of another kind ends the call with that attempt.                  *)
(***************************************************************************)
\* the attempts of chunk i's call so far: those that raised and were
\* followed by another, and the one under way
AttemptsMade(i) == Len(attempts[i]) + (IF worker[i] = "calling" THEN 1 ELSE 0)

Thm_C19 ==
    \A i \in DOMAIN attempts :
        /\ AttemptsMade(i) <= 6
        /\ \A k \in 1..Len(attempts[i]) : attempts[i][k] = "RateLimitError"

\* one call is in its sixth attempt after five rate-limit errors, another
\* ended at its first attempt on a rejected request
Wit_C19 ==
    \E i, j \in DOMAIN attempts :
        /\ worker[i] = "calling" /\ AttemptsMade(i) = 6
        /\ worker[j] = "finished" /\ outcome[j] = "api_error"

(***************************************************************************)
(* C20.  A transient error of a remote transcription call, rate limiting   *)
(* or a transport reset, is retried and does not end the segment's task    *)
(* in failure as long as the call has attempts left.                       *)
(***************************************************************************)
\* the task of chunk i ends in this step on a transient error
EndsOnTransientError(i) ==
    /\ worker[i] = "calling"
    /\ i \in DOMAIN outcome'
    /\ outcome'[i] \in {"retries_exhausted", "connection_error"}

CE_C20 ==
    [][\A i \in DOMAIN worker : EndsOnTransientError(i) => AttemptsMade(i) = 6]_vars

(***************************************************************************)
(* C21.  The merge never deletes or merges a unit whose time range does    *)
(* not lie inside an overlap window: every unit of a segment that was      *)
(* transcribed, lying outside all windows, stands in the merged sequence   *)
(* exactly once, with its text and its times.                              *)
(***************************************************************************)
\* the unit lies in the stretch chunks i and i + 1 share
InWindow(u, i) == chunks[i + 1].start_time <= u.start /\ u.end <= chunks[i].end_time

OutsideWindows(u) == \A i \in 1..(Len(chunks) - 1) : ~InWindow(u, i)

KeptOnce(merged, units) ==
    \A k \in 1..Len(units) : OutsideWindows(units[k]) => Occurrences(merged, units[k]) = 1

Thm_C21 ==
    pc = "done" =>
        \A i \in DOMAIN result :
            /\ KeptOnce(transcripts.segments, result[i].segments)
            /\ KeptOnce(transcripts.words, result[i].words)

\* three chunks were merged; the first gave units outside the windows, the
\* second a unit inside the window it shares with the third
Wit_C21 ==
    /\ pc = "done"
    /\ Len(chunks) = 3 /\ Len(result) = 3
    /\ Len(result[1].segments) = 2 /\ \A k \in 1..2 : OutsideWindows(result[1].segments[k])
    /\ Len(result[2].segments) = 1 /\ InWindow(result[2].segments[1], 2)
    /\ Len(result[3].words) = 2
    /\ Len(transcripts.segments) >= 4

(***************************************************************************)
(* C22.  Every descriptor split_audio_file emits for an asset that         *)
(* requires splitting, with C > O and duration > 0, has                    *)
(* 0 <= start < end <= duration; the end of the final one is clamped to    *)
(* the duration, which may leave it shorter than the chunk length.         *)
(***************************************************************************)
WellFormed(chunk) ==
    /\ 0 <= chunk.start_time
    /\ chunk.start_time < chunk.end_time
    /\ chunk.end_time <= asset.duration

Thm_C22 ==
    (SplitRequired /\ chunk_length_ms > overlap_ms /\ asset.duration > 0) =>
        /\ \A i \in DOMAIN chunks :
              /\ WellFormed(chunks[i])
              /\ chunks[i].end_time - chunks[i].start_time <= chunk_length_ms
        /\ (SplitFinished /\ chunks # <<>>) => chunks[Len(chunks)].end_time = asset.duration

\* split_audio_file was called with a chunk length that does not divide the
\* duration and has returned: the final descriptor is shorter than the others
Wit_C22 ==
    /\ entry = "split_audio_file" /\ pc = "returned"
    /\ SplitRequired /\ chunk_length_ms > overlap_ms + 1
    /\ Len(chunks) >= 3
    /\ chunks[1].end_time - chunks[1].start_time = chunk_length_ms
    /\ chunks[Len(chunks)].end_time - chunks[Len(chunks)].start_time < chunk_length_ms
    /\ chunks[Len(chunks)].end_time = asset.duration

(***************************************************************************)
(* C23.  Every unit process_whisper_response produces, word or segment,    *)
(* has start < end: a unit the service returned with start = end ends      *)
(* 10 ms after its start, and a unit returned with start < end keeps its   *)
(* duration.                                                               *)
(***************************************************************************)
NonZeroDuration(out, local) ==
    \A k \in 1..Len(out) :
        /\ out[k].start < out[k].end
        /\ local[k].start = local[k].end => out[k].end - out[k].start = 10
        /\ local[k].start < local[k].end
              => out[k].end - out[k].start = local[k].end - local[k].start

Thm_C23 ==
    \A i \in DOMAIN result :
        Processed(i) =>
            /\ Len(result[i].segments) = Len(result[i].response.segments)
            /\ Len(result[i].words) = Len(result[i].response.words)
            /\ NonZeroDuration(result[i].segments, result[i].response.segments)
            /\ NonZeroDuration(result[i].words, result[i].response.words)

\* the first chunk returned the word "bye" with start = end = 14392 s beside
\* a segment of 3 s
Wit_C23 ==
    /\ Len(result) >= 1 /\ Processed(1)
    /\ result[1].response = ByeLate
    /\ result[1].words[1].start = 14392000 /\ result[1].words[1].end = 14392010
    /\ result[1].segments[1].end - result[1].segments[1].start = 3000

(***************************************************************************)
(* C24.  The source audio asset is never deleted: transcribe_chunk removes *)
(* a file only for a chunk flagged is_temp, so the original file exists    *)
(* throughout and after the job, whether it succeeded or failed, also when *)
(* it was transcribed unsplit.                                             *)
(***************************************************************************)
Thm_C24 ==
    /\ OrigName \in files
    /\ \A i \in DOMAIN removes : ~chunks[i].is_temp => removes[i] = 0

\* the unsplit asset was transcribed and the transcripts written
Wit_C24 ==
    /\ pc = "done"
    /\ Len(chunks) = 1 /\ ~chunks[1].is_temp /\ chunks[1].file_path = OrigName
    /\ outcome = <<"ok">> /\ result[1].segments # <<>>
    /\ removes = <<0>>

(***************************************************************************)
(* C25.  save_transcripts for an asset starts only after the task of every *)
(* segment of that asset has finished and its result was collected: while  *)
(* the output files are written no task is queued or running and no chunk  *)
(* file is open.                                                           *)
(***************************************************************************)
Saving == pc \in {"save", "done", "saved_again"}

WasCollected(i) == \E k \in 1..Len(collected) : collected[k] = i

Thm_C25 ==
    Saving =>
        /\ Len(worker) = Len(chunks)
        /\ \A i \in DOMAIN worker : worker[i] = "finished" /\ WasCollected(i)

\* the three tasks of a 9-hour asset have all returned a response, the last
\* submitted first, and save_transcripts is about to run
Wit_C25 ==
    /\ pc = "save"
    /\ Len(worker) = 3
    /\ collected = <<3, 1, 2>>
    /\ \A i \in 1..3 : worker[i] = "finished" /\ result[i].has_response
    /\ \A f \in TranscriptFiles : Untouched(f)

(***************************************************************************)
(* C26.  Within one job every segment has a temporary file of its own      *)
(* name: no two descriptors of the job's split name the same file, so no   *)
(* task finds its file removed by another and no file is removed twice.    *)
(***************************************************************************)
UniquelyNamed ==
    \A i, j \in DOMAIN chunks : i # j => chunks[i].file_path # chunks[j].file_path

Thm_C26 ==
    IsTranscribeJob =>
        /\ UniquelyNamed
        /\ \A i \in DOMAIN outcome : outcome[i] # "remove_error" /\ removes[i] <= 1
        /\ \A i \in DOMAIN worker : worker[i] = "calling" => Materialized(chunks[i])

\* two tasks of a 9-hour asset have their files open at once, the third has
\* removed its own
Wit_C26 ==
    /\ IsTranscribeJob
    /\ Len(worker) = 3
    /\ worker = <<"calling", "calling", "finished">>
    /\ removes = <<0, 0, 1>>
    /\ chunks[1].file_path \in files /\ chunks[2].file_path \in files
    /\ chunks[3].file_path \notin files

(***************************************************************************)
(* C27.  When the asset is above the no-split limit and its duration       *)
(* cannot be determined, split_audio_file returns no descriptor, no task   *)
(* runs, and transcribe_audio_files goes on to save_transcripts, which     *)
(* writes all four transcript files with empty content: no failure is      *)
(* reported and the files of an earlier run are not kept.                  *)
(***************************************************************************)
DurationUnknown == asset.size * 10 > 248 * 1048576 /\ ~asset.probe_ok

Thm_C27 ==
    (IsTranscribeJob /\ DurationUnknown) =>
        /\ chunks = <<>> /\ worker = <<>> /\ collected = <<>>
        /\ pc \in {"split", "submit", "collect", "save", "done", "saved_again"}
        /\ pc = "submit" => ENABLED Submit
        /\ pc = "collect" => ENABLED ExitPool
        /\ pc = "save" => ENABLED SaveTranscripts
        /\ pc \in {"done", "saved_again"} =>
              \A f \in TranscriptFiles : outputs[f] = Written(<<>>)

\* the job of a 40 MB asset whose probe failed has ended with four empty files
Wit_C27 ==
    /\ IsTranscribeJob /\ DurationUnknown /\ asset.size = 40000000
    /\ pc = "done"
    /\ chunks = <<>> /\ worker = <<>>
    /\ \A f \in TranscriptFiles : outputs[f].state = "written" /\ outputs[f].data = <<>>

(***************************************************************************)
(* C28.  For every subtitle sequence and every token limit,                *)
(* split_srt_file_by_tokens returns non-empty chunks whose concatenation   *)
(* in order is the parsed subtitle sequence, also when one subtitle, the   *)
(* first in particular, alone exceeds the safe token limit.                *)
(***************************************************************************)
RECURSIVE Flatten(_)
Flatten(lists) == IF lists = <<>> THEN <<>> ELSE Head(lists) \o Flatten(Tail(lists))

CE_C28 ==
    srt_pc = "returned" =>
        /\ \A k \in 1..Len(srt_chunks) : srt_chunks[k] # <<>>
        /\ Flatten(srt_chunks) = srt_subtitles

(***************************************************************************)
(* C29.  Whenever run_bot_loop detects that the stream is offline, by      *)
(* find_active_live_stream returning nothing or by an HttpError saying     *)
(* the live chat has ended, the polling loop ends and                      *)
(* cleanup_and_trigger_full_process has run exactly once if                *)
(* full_process_enabled is set, and not at all otherwise.                  *)
(***************************************************************************)
\* the loop was left because the stream was found offline
OfflineDetected == bot_pc \in {"exited", "raised_offline"}

CE_C29 ==
    /\ OfflineDetected => cleanups = (IF full_process_enabled THEN 1 ELSE 0)
    /\ ~OfflineDetected => cleanups = 0

(***************************************************************************)
(* C30.  Over a whole run of run_bot_loop, each message published after    *)
(* the bot joined by somebody other than the bot is passed to              *)
(* handle_message at most once, whatever the polls, a failed fetch         *)
(* included; a message published before the join and a message of the bot  *)
(* are never passed to it.                                                 *)
(***************************************************************************)
TimesHandled(k) == Cardinality({h \in 1..Len(handled) : handled[h] = k})

CE_C30 ==
    \A k \in 1..Len(chat) :
        /\ TimesHandled(k) <= 1
        /\ TimesHandled(k) > 0 => PassesFilter(k)

====
